---------------------------- MODULE Spec2Model ----------------------------
(***************************************************************************)
(* Binary decoders of the Autonomous Fund CLI (src/cli/fund_utils.py).     *)
(*                                                                         *)
(* Representation of Python values                                         *)
(*   bytes        a sequence of integers in 0..255                         *)
(*   int          the ints the decoders compute (decoded values, length    *)
(*                prefixes, offsets) are unbounded Python ints; each is    *)
(*                held as its canonical big-endian numeral in base 65536   *)
(*                (a sequence of limbs in 0..65535 without a leading zero  *)
(*                limb, <<>> for 0), so that 2^64-1 and an offset of       *)
(*                4 + 2^32-1 are representable.  Buffer lengths and        *)
(*                indices into a buffer are machine integers.              *)
(*   str          text decoded from UTF-8 is the sequence of its code      *)
(*                points; addresses and status names are strings           *)
(*   exceptions   a call returns [status, value, offset]; status is "ok"   *)
(*                or the name of the exception that escaped, and then      *)
(*                value and offset are NoValue                             *)
(***************************************************************************)
EXTENDS Integers, Sequences, FiniteSets, TLC

Byte == 0..255

NoValue == "no value"

MinOf(S) == CHOOSE x \in S : \A y \in S : x <= y

StripZeros(s) ==
    LET nz == {i \in 1..Len(s) : s[i] # 0}
    IN  IF nz = {} THEN <<>> ELSE SubSeq(s, MinOf(nz), Len(s))

\* int.from_bytes(b, "little")
int_from_bytes_little(b) ==
    LET r      == [i \in 1..Len(b) |-> b[Len(b) + 1 - i]]
        padded == IF Len(r) % 2 = 1 THEN <<0>> \o r ELSE r
        limbs  == [i \in 1..(Len(padded) \div 2) |->
                      padded[2 * i - 1] * 256 + padded[2 * i]]
    IN  StripZeros(limbs)

\* int.from_bytes(b, "big"): the value of b read as a big-endian numeral.
int_from_bytes(b) ==
    LET padded == IF Len(b) % 2 = 1 THEN <<0>> \o b ELSE b
        limbs  == [i \in 1..(Len(padded) \div 2) |->
                      padded[2 * i - 1] * 256 + padded[2 * i]]
    IN  StripZeros(limbs)

\* A Python int below 2^31 as a machine integer.
ToNat(v) ==
    IF Len(v) = 0 THEN 0
    ELSE IF Len(v) = 1 THEN v[1]
    ELSE v[1] * 65536 + v[2]

\* The Python int n, for a machine integer n >= 0.
IntOf(n) ==
    IF n = 0 THEN <<>>
    ELSE IF n < 65536 THEN <<n>>
    ELSE <<n \div 65536, n % 65536>>

\* a + b with the carry c, from the least significant limb.
RECURSIVE IntAddCarry(_, _, _)
IntAddCarry(a, b, c) ==
    IF Len(a) = 0 /\ Len(b) = 0 THEN IF c = 0 THEN <<>> ELSE <<c>>
    ELSE LET x  == IF Len(a) = 0 THEN 0 ELSE a[Len(a)]
             y  == IF Len(b) = 0 THEN 0 ELSE b[Len(b)]
             fa == IF Len(a) = 0 THEN a ELSE SubSeq(a, 1, Len(a) - 1)
             fb == IF Len(b) = 0 THEN b ELSE SubSeq(b, 1, Len(b) - 1)
             s  == x + y + c
         IN  IntAddCarry(fa, fb, s \div 65536) \o <<s % 65536>>

\* a + b
IntAdd(a, b) == IntAddCarry(a, b, 0)

\* a < b
IntLess(a, b) ==
    IF Len(a) # Len(b) THEN Len(a) < Len(b)
    ELSE \E i \in 1..Len(a) :
            /\ a[i] < b[i]
            /\ \A j \in 1..(i - 1) : a[j] = b[j]

\* a <= b
IntLeq(a, b) == ~IntLess(b, a)

\* A slice bound a >= 0 clamped to a buffer of n bytes: min(a, n).
Clamp(a, n) == IF IntLess(a, IntOf(n)) THEN ToNat(a) ELSE n

\* data[a:b] for 0 <= a: Python clamps both ends to the buffer.
Slice(data, a, b) ==
    SubSeq(data, Clamp(a, Len(data)) + 1, Clamp(b, Len(data)))

Ok(v, o) == [status |-> "ok", value |-> v, offset |-> o]

Raise(e) == [status |-> e, value |-> NoValue, offset |-> NoValue]

----------------------------------------------------------------------------
(* Top-level decoders *)

decode_top_level_u64(data) == int_from_bytes(data)

\* The nested convention applied to a top-level slot: four bytes skipped.
decode_top_level_biguint_framed(data) ==
    IF Len(data) = 0 THEN <<>> ELSE int_from_bytes(SubSeq(data, 5, Len(data)))

decode_top_level_biguint(data) ==
    IF Len(data) = 0 THEN <<>> ELSE int_from_bytes(data)

----------------------------------------------------------------------------
(* bytes.decode("utf-8"), strict *)

IsCont(x) == x >= 128 /\ x <= 191

\* The character starting at b[i]: n bytes long (0: invalid sequence) with
\* code point cp.
Utf8Char(b, i) ==
    LET c0 == b[i]
        at(k) == IF i + k <= Len(b) THEN b[i + k] ELSE -1
        c1 == at(1)
        c2 == at(2)
        c3 == at(3)
        bad == [n |-> 0, cp |-> 0]
    IN  IF c0 < 128 THEN [n |-> 1, cp |-> c0]
        ELSE IF c0 >= 194 /\ c0 <= 223 THEN
            IF IsCont(c1) THEN [n |-> 2, cp |-> (c0 - 192) * 64 + (c1 - 128)]
            ELSE bad
        ELSE IF c0 >= 224 /\ c0 <= 239 THEN
            IF /\ IsCont(c1) /\ IsCont(c2)
               /\ (c0 = 224 => c1 >= 160)
               /\ (c0 = 237 => c1 <= 159)
            THEN [n |-> 3,
                  cp |-> (c0 - 224) * 4096 + (c1 - 128) * 64 + (c2 - 128)]
            ELSE bad
        ELSE IF c0 >= 240 /\ c0 <= 244 THEN
            IF /\ IsCont(c1) /\ IsCont(c2) /\ IsCont(c3)
               /\ (c0 = 240 => c1 >= 144)
               /\ (c0 = 244 => c1 <= 143)
            THEN [n |-> 4,
                  cp |-> (c0 - 240) * 262144 + (c1 - 128) * 4096
                         + (c2 - 128) * 64 + (c3 - 128)]
            ELSE bad
        ELSE bad

RECURSIVE Utf8Valid(_, _)
Utf8Valid(b, i) ==
    IF i > Len(b) THEN TRUE
    ELSE LET ch == Utf8Char(b, i)
         IN  ch.n > 0 /\ Utf8Valid(b, i + ch.n)

RECURSIVE Utf8Text(_, _)
Utf8Text(b, i) ==
    IF i > Len(b) THEN <<>>
    ELSE LET ch == Utf8Char(b, i)
         IN  <<ch.cp>> \o Utf8Text(b, i + ch.n)

----------------------------------------------------------------------------
(* Address rendering *)

HexDigits ==
    <<"0", "1", "2", "3", "4", "5", "6", "7",
      "8", "9", "a", "b", "c", "d", "e", "f">>

\* The characters table[x + 1] for x in items[lo..hi], joined.
RECURSIVE JoinChars(_, _, _, _)
JoinChars(table, items, lo, hi) ==
    IF lo > hi THEN ""
    ELSE IF lo = hi THEN table[items[lo] + 1]
    ELSE LET mid == (lo + hi) \div 2
         IN  JoinChars(table, items, lo, mid)
             \o JoinChars(table, items, mid + 1, hi)

\* bytes.hex()
bytes_hex(b) ==
    LET nibbles == [k \in 1..(2 * Len(b)) |->
                       IF k % 2 = 1 THEN b[(k + 1) \div 2] \div 16
                       ELSE b[k \div 2] % 16]
    IN  JoinChars(HexDigits, nibbles, 1, Len(nibbles))

\* x ^ y for 5-bit x, y, tabulated.
Xor5 ==
    LET bit(x, k) == (x \div (2 ^ k)) % 2
    IN  [x \in 0..31 |-> [y \in 0..31 |->
            ((bit(x, 0) + bit(y, 0)) % 2)
            + 2 * ((bit(x, 1) + bit(y, 1)) % 2)
            + 4 * ((bit(x, 2) + bit(y, 2)) % 2)
            + 8 * ((bit(x, 3) + bit(y, 3)) % 2)
            + 16 * ((bit(x, 4) + bit(y, 4)) % 2)]]

\* a ^ b for 0 <= a, b < 2^30, five bits at a time.
Xor(a, b) ==
    LET chunk(x, k) == (x \div (32 ^ k)) % 32
    IN  Xor5[chunk(a, 0)][chunk(b, 0)]
        + 32 * Xor5[chunk(a, 1)][chunk(b, 1)]
        + 1024 * Xor5[chunk(a, 2)][chunk(b, 2)]
        + 32768 * Xor5[chunk(a, 3)][chunk(b, 3)]
        + 1048576 * Xor5[chunk(a, 4)][chunk(b, 4)]
        + 33554432 * Xor5[chunk(a, 5)][chunk(b, 5)]

\* bech32.convertbits(data, 8, 5), pad=True: regroup the bits of the bytes,
\* most significant first, into 5-bit groups, zero-padded at the end.
convertbits(data) ==
    LET nbits == 8 * Len(data)
        bit(k) == IF k >= nbits THEN 0
                  ELSE (data[(k \div 8) + 1] \div (2 ^ (7 - (k % 8)))) % 2
        n == (nbits + 4) \div 5
    IN  [g \in 1..n |->
            16 * bit(5 * g - 5) + 8 * bit(5 * g - 4) + 4 * bit(5 * g - 3)
            + 2 * bit(5 * g - 2) + bit(5 * g - 1)]

Bech32Generator == <<996825010, 642813549, 513874426, 1027748829, 705979059>>

Bech32Charset ==
    <<"q", "p", "z", "r", "y", "9", "x", "8", "g", "f", "2", "t", "v", "d",
      "w", "0", "s", "3", "j", "n", "5", "4", "k", "h", "c", "e", "6", "m",
      "u", "a", "7", "l">>

\* bech32_hrp_expand("claw"): ord(c) >> 5 of each character, 0, ord(c) & 31.
HrpExpandClaw == <<3, 3, 3, 3, 0, 3, 12, 1, 23>>

\* One round of bech32_polymod's loop.
Bech32PolymodStep(chk, v) ==
    LET top  == chk \div 33554432
        base == (chk % 33554432) * 32 + v
        mask == [i \in 1..5 |->
                    IF (top \div (2 ^ (i - 1))) % 2 = 1
                    THEN Bech32Generator[i] ELSE 0]
    IN  Xor(Xor(Xor(base, mask[1]), Xor(mask[2], mask[3])),
            Xor(mask[4], mask[5]))

\* bech32_polymod over values[lo..hi], entered with checksum chk.
RECURSIVE Bech32Polymod(_, _, _, _)
Bech32Polymod(values, lo, hi, chk) ==
    IF lo > hi THEN chk
    ELSE IF lo = hi THEN Bech32PolymodStep(chk, values[lo])
    ELSE LET mid  == (lo + hi) \div 2
             left == Bech32Polymod(values, lo, mid, chk)
         IN  IF left >= 0 THEN Bech32Polymod(values, mid + 1, hi, left)
             ELSE left

\* bech32.bech32_encode("claw", data)
bech32_encode_claw(data) ==
    LET values   == HrpExpandClaw \o data \o <<0, 0, 0, 0, 0, 0>>
        polymod  == Xor(Bech32Polymod(values, 1, Len(values), 1), 1)
        checksum == [i \in 1..6 |-> (polymod \div (32 ^ (6 - i))) % 32]
        combined == data \o checksum
    IN  "claw" \o "1" \o JoinChars(Bech32Charset, combined, 1, Len(combined))

\* pubkey_to_bech32 with the import of bech32 succeeding (importable) or
\* raising ImportError.
pubkey_to_bech32(pubkey_bytes, importable) ==
    IF importable THEN bech32_encode_claw(convertbits(pubkey_bytes))
    ELSE "0x" \o bytes_hex(pubkey_bytes)

----------------------------------------------------------------------------
(* Nested decoders *)

\* A four-byte field read where eight are encoded.
decode_nested_u32(data, offset) ==
    Ok(int_from_bytes(Slice(data, offset, IntAdd(offset, IntOf(4)))),
       IntAdd(offset, IntOf(4)))

decode_nested_u64(data, offset) ==
    Ok(int_from_bytes(Slice(data, offset, IntAdd(offset, IntOf(8)))),
       IntAdd(offset, IntOf(8)))

\* The returned cursor without the four bytes of the length prefix.
decode_nested_biguint_prefix_uncounted(data, offset) ==
    LET length == int_from_bytes(Slice(data, offset, IntAdd(offset, IntOf(4))))
        start  == IntAdd(offset, IntOf(4))
        val    == IF IntLess(IntOf(0), length)
                  THEN int_from_bytes(Slice(data, start, IntAdd(start, length)))
                  ELSE IntOf(0)
    IN  Ok(val, IntAdd(offset, length))

decode_nested_biguint(data, offset) ==
    LET length == int_from_bytes(Slice(data, offset, IntAdd(offset, IntOf(4))))
        start  == IntAdd(offset, IntOf(4))
        val    == IF IntLess(IntOf(0), length)
                  THEN int_from_bytes(Slice(data, start, IntAdd(start, length)))
                  ELSE IntOf(0)
    IN  Ok(val, IntAdd(start, length))

decode_nested_buffer(data, offset) ==
    LET length == int_from_bytes(Slice(data, offset, IntAdd(offset, IntOf(4))))
        start  == IntAdd(offset, IntOf(4))
        raw    == Slice(data, start, IntAdd(start, length))
    IN  IF Utf8Valid(raw, 1)
        THEN Ok(Utf8Text(raw, 1), IntAdd(start, length))
        ELSE Raise("UnicodeDecodeError")

decode_nested_address(data, offset, importable) ==
    Ok(pubkey_to_bech32(Slice(data, offset, IntAdd(offset, IntOf(32))),
                        importable),
       IntAdd(offset, IntOf(32)))

decode_nested_bool(data, offset) ==
    IF IntLess(offset, IntOf(Len(data)))
    THEN Ok(data[ToNat(offset) + 1] # 0, IntAdd(offset, IntOf(1)))
    ELSE Raise("IndexError")

----------------------------------------------------------------------------
(* Record decoders, one field at a time.  A field step takes the record *)
(* built so far and the cursor and returns [status, value, offset] with *)
(* value the record extended by the field.                               *)

STATUS_MAP ==
    (0 :> "Open") @@ (1 :> "Passed") @@ (2 :> "Executable")
    @@ (3 :> "Executed") @@ (4 :> "Failed") @@ (5 :> "Cancelled")

VOTE_DIR_MAP == (0 :> "Yes") @@ (1 :> "No")

\* map.get(byte, map[0]): an unknown byte coerced to the first variant.
MapGetCoerced(map, byte) ==
    IF byte \in DOMAIN map THEN map[byte] ELSE map[0]

\* map.get(byte, f"Unknown({byte})")
MapGet(map, byte) ==
    IF byte \in DOMAIN map THEN map[byte]
    ELSE "Unknown(" \o ToString(byte) \o ")"

\* record[name], offset = <a nested decode's return>
SetField(record, name, r) ==
    IF r.status = "ok"
    THEN Ok((name :> r.value) @@ record, r.offset)
    ELSE r

\* byte = data[offset]; record[name] = map.get(...); offset += 1
EnumField(record, name, map, data, offset) ==
    IF IntLess(offset, IntOf(Len(data)))
    THEN Ok((name :> MapGet(map, data[ToNat(offset) + 1])) @@ record,
            IntAdd(offset, IntOf(1)))
    ELSE Raise("IndexError")

ProposalFields == 11

\* decode_proposal with created_at and passed_at decoded in the other order.
decode_proposal_step_reordered(k, record, data, offset, importable) ==
    CASE k = 1 -> SetField(record, "id", decode_nested_u64(data, offset))
      [] k = 2 -> SetField(record, "proposer",
                           decode_nested_address(data, offset, importable))
      [] k = 3 -> SetField(record, "description",
                           decode_nested_buffer(data, offset))
      [] k = 4 -> SetField(record, "receiver",
                           decode_nested_address(data, offset, importable))
      [] k = 5 -> SetField(record, "amount",
                           decode_nested_biguint(data, offset))
      [] k = 6 -> EnumField(record, "status", STATUS_MAP, data, offset)
      [] k = 7 -> SetField(record, "yes_votes",
                           decode_nested_biguint(data, offset))
      [] k = 8 -> SetField(record, "no_votes",
                           decode_nested_biguint(data, offset))
      [] k = 9 -> SetField(record, "passed_at",
                           decode_nested_u64(data, offset))
      [] k = 10 -> SetField(record, "created_at",
                            decode_nested_u64(data, offset))
      [] k = 11 -> SetField(record, "bulletin_post_id",
                            decode_nested_u64(data, offset))

\* The k-th statement of decode_proposal's body (lines 106-118).
decode_proposal_step(k, record, data, offset, importable) ==
    CASE k = 1 -> SetField(record, "id", decode_nested_u64(data, offset))
      [] k = 2 -> SetField(record, "proposer",
                           decode_nested_address(data, offset, importable))
      [] k = 3 -> SetField(record, "description",
                           decode_nested_buffer(data, offset))
      [] k = 4 -> SetField(record, "receiver",
                           decode_nested_address(data, offset, importable))
      [] k = 5 -> SetField(record, "amount",
                           decode_nested_biguint(data, offset))
      [] k = 6 -> EnumField(record, "status", STATUS_MAP, data, offset)
      [] k = 7 -> SetField(record, "yes_votes",
                           decode_nested_biguint(data, offset))
      [] k = 8 -> SetField(record, "no_votes",
                           decode_nested_biguint(data, offset))
      [] k = 9 -> SetField(record, "created_at",
                           decode_nested_u64(data, offset))
      [] k = 10 -> SetField(record, "passed_at",
                            decode_nested_u64(data, offset))
      [] k = 11 -> SetField(record, "bulletin_post_id",
                            decode_nested_u64(data, offset))

VoteFields == 3

\* The k-th statement of decode_vote_record's body (lines 125-129).
decode_vote_record_step(k, record, data, offset, importable) ==
    CASE k = 1 -> SetField(record, "voter",
                           decode_nested_address(data, offset, importable))
      [] k = 2 -> EnumField(record, "direction", VOTE_DIR_MAP, data, offset)
      [] k = 3 -> SetField(record, "weight",
                           decode_nested_biguint(data, offset))

EmptyDict == [x \in {} |-> x]

----------------------------------------------------------------------------
(* The contract's nested encoding of the values the decoders are given *)
(* (wire format, spec section 6).                                      *)

LimbBytes(v) ==
    [k \in 1..(2 * Len(v)) |->
        IF k % 2 = 1 THEN v[(k + 1) \div 2] \div 256 ELSE v[k \div 2] % 256]

\* The minimal big-endian bytes of v (none for 0).
MinimalBytes(v) == StripZeros(LimbBytes(v))

\* The 8-byte big-endian encoding of v < 2^64.
U64Bytes(v) == [k \in 1..(8 - 2 * Len(v)) |-> 0] \o LimbBytes(v)

\* The 4-byte big-endian encoding of a length.
LenPrefix(n) ==
    <<(n \div 16777216) % 256, (n \div 65536) % 256, (n \div 256) % 256,
      n % 256>>

EncodeBigUint(v) ==
    LET b == MinimalBytes(v) IN LenPrefix(Len(b)) \o b

Utf8EncodeChar(cp) ==
    IF cp < 128 THEN <<cp>>
    ELSE IF cp < 2048 THEN <<192 + (cp \div 64), 128 + (cp % 64)>>
    ELSE IF cp < 65536 THEN
        <<224 + (cp \div 4096), 128 + ((cp \div 64) % 64), 128 + (cp % 64)>>
    ELSE <<240 + (cp \div 262144), 128 + ((cp \div 4096) % 64),
           128 + ((cp \div 64) % 64), 128 + (cp % 64)>>

RECURSIVE Utf8Bytes(_)
Utf8Bytes(text) ==
    IF Len(text) = 0 THEN <<>>
    ELSE Utf8EncodeChar(text[1]) \o Utf8Bytes(Tail(text))

EncodeBytes(b) == LenPrefix(Len(b)) \o b

EncodeText(text) == EncodeBytes(Utf8Bytes(text))

EncodeProposal(p) ==
    U64Bytes(p.id) \o p.proposer \o EncodeText(p.description) \o p.receiver
    \o EncodeBigUint(p.amount) \o <<p.status>> \o EncodeBigUint(p.yes_votes)
    \o EncodeBigUint(p.no_votes) \o U64Bytes(p.created_at)
    \o U64Bytes(p.passed_at) \o U64Bytes(p.bulletin_post_id)

EncodeVote(r) == r.voter \o <<r.direction>> \o EncodeBigUint(r.weight)

----------------------------------------------------------------------------
(* Inputs *)

\* Junk bytes put before an encoded value: 0..MaxPrefix of them.
MaxPrefix == 1

\* Length of the long description.
LongTextLen == 40

\* Items returned to get_members.
MaxMembers == 2

U64Max == <<65535, 65535, 65535, 65535>>

U64Values == {<<>>, <<1>>, <<258, 772, 1286, 1800>>, U64Max}

\* 0, 255, 256, 2^16, 2^24 + 1, 10^18 and 2^64.
BigValues ==
    {<<>>, <<255>>, <<256>>, <<1, 0>>, <<256, 1>>,
     <<3552, 46771, 42852, 0>>, <<1, 0, 0, 0, 0>>}

KeyA == [i \in 1..32 |-> i - 1]

KeyB == [i \in 1..32 |-> 255]

Keys == {KeyA, KeyB}

LongText == [i \in 1..LongTextLen |-> 97 + (i % 26)]

\* "", "hi", "hé€\U0001f600"
Texts == {<<>>, <<104, 105>>, <<104, 233, 8364, 128512>>}

\* Byte strings that are not UTF-8: a stray 0xff, a lone lead byte, an
\* overlong form, a surrogate.
InvalidTexts ==
    {<<255>>, <<104, 195>>, <<224, 128, 128>>, <<237, 160, 128>>}

Junk(n) == [i \in 1..n |-> 170]

Prefixes == {Junk(n) : n \in 0..MaxPrefix}

\* The encodings of single values handed to the nested primitives.
ScalarBodies ==
    {U64Bytes(v) : v \in U64Values}
    \cup {EncodeBigUint(v) : v \in BigValues}
    \cup {EncodeText(t) : t \in Texts}
    \cup {EncodeBytes(b) : b \in InvalidTexts}
    \cup Keys
    \cup {<<0>>, <<1>>, <<2>>, <<255>>}

MinimalProposal(b) ==
    [id |-> <<>>, proposer |-> KeyA, description |-> <<>>, receiver |-> KeyA,
     amount |-> <<>>, status |-> b, yes_votes |-> <<>>, no_votes |-> <<>>,
     created_at |-> <<>>, passed_at |-> <<>>, bulletin_post_id |-> <<>>]

MaximalProposal(b) ==
    [id |-> U64Max, proposer |-> KeyB, description |-> LongText,
     receiver |-> KeyA, amount |-> <<1, 0, 0, 0, 0>>, status |-> b,
     yes_votes |-> <<3552, 46771, 42852, 0>>, no_votes |-> <<1, 0, 0, 0, 0>>,
     created_at |-> U64Max, passed_at |-> U64Max,
     bulletin_post_id |-> U64Max]

MixedProposal(b) ==
    [id |-> <<7>>, proposer |-> KeyA,
     description |-> <<104, 233, 8364, 128512>>, receiver |-> KeyB,
     amount |-> <<3552, 46771, 42852, 0>>, status |-> b,
     yes_votes |-> <<256>>, no_votes |-> <<>>,
     created_at |-> <<258, 772, 1286, 1800>>, passed_at |-> <<>>,
     bulletin_post_id |-> <<1>>]

Proposals ==
    {MinimalProposal(b) : b \in Byte}
    \cup {MaximalProposal(b) : b \in {0, 5, 6, 255}}
    \cup {MixedProposal(b) : b \in {1, 2, 3, 4, 7}}

Votes ==
    {[voter |-> KeyA, direction |-> b, weight |-> <<>>] : b \in Byte}
    \cup {[voter |-> KeyB, direction |-> b, weight |-> w] :
            b \in {0, 1, 2}, w \in {<<255>>, <<1, 0, 0, 0, 0>>}}

\* What follows a first vote record in the buffer.
SecondVotes ==
    {[voter |-> KeyB, direction |-> 1, weight |-> <<256>>],
     [voter |-> KeyA, direction |-> 9, weight |-> <<>>]}

----------------------------------------------------------------------------
(* State *)

VARIABLES
    input,     \* what the buffer was built from (kept for reference only)
    data,      \* the buffer being decoded (one base64-decoded return slot)
    pc,        \* "call": about to call one primitive; "proposal", "vote":
               \* inside decode_proposal / decode_vote_record; "returned":
               \* a vote record was returned; "members": inside
               \* get_members' loop; "done"
    field,     \* fields of the current record decoded so far
    record,    \* the dict under construction
    start,     \* the offset the current record decode was called with
    prev,      \* the cursor before the last decode step
    offset,    \* the cursor
    ret,       \* the last return: [op, from, status, value, offset]
    out,       \* the records returned so far, oldest first
    members,   \* get_members' list
    bech32     \* the bech32 package: "missing", "installed" (importable, not
               \* yet imported), "imported" (in sys.modules)

vars ==
    <<input, data, pc, field, record, start, prev, offset, ret, out, members,
      bech32>>

NoRet ==
    [op |-> "none", from |-> IntOf(0), status |-> "none", value |-> NoValue,
     offset |-> NoValue]

Return(op, from, r) ==
    [op |-> op, from |-> from, status |-> r.status, value |-> r.value,
     offset |-> r.offset]

Cut(buffer, n) == SubSeq(buffer, 1, n)

\* One encoded value, after some junk and before one more byte, the buffer
\* cut anywhere; the primitive is called at the value's first byte.
InitCall ==
    \E body \in ScalarBodies, pre \in Prefixes :
        LET whole == pre \o body \o <<187>>
        IN  \E n \in 0..Len(whole) :
                /\ input = [kind |-> "call", body |-> body,
                            intact |-> n >= Len(pre) + Len(body)]
                /\ data = Cut(whole, n)
                /\ offset = IntOf(IF Len(pre) <= n THEN Len(pre) ELSE n)
                /\ pc = "call"

\* get_proposal: decode_proposal(data) on one return slot, intact or cut.
InitProposal ==
    /\ \/ \E p \in Proposals :
            /\ input = [kind |-> "proposal", fields |-> p, intact |-> TRUE]
            /\ data = EncodeProposal(p)
       \/ LET p == MixedProposal(2)
              whole == EncodeProposal(p)
          IN  \E n \in 0..(Len(whole) - 1) :
                /\ input = [kind |-> "proposal", fields |-> p,
                            intact |-> FALSE]
                /\ data = Cut(whole, n)
    /\ offset = IntOf(0)
    /\ pc = "proposal"

CutVote == [voter |-> KeyB, direction |-> 1, weight |-> <<1, 0, 0, 0, 0>>]

PairFirsts ==
    {[voter |-> KeyA, direction |-> 0, weight |-> <<>>],
     [voter |-> KeyB, direction |-> 2, weight |-> <<1, 0, 0, 0, 0>>]}

\* decode_vote_record on a buffer holding one record, two records back to
\* back, or a cut record, after some junk.
InitVote ==
    /\ \E pre \in Prefixes :
        /\ \/ \E r \in Votes :
                /\ input = [kind |-> "vote", records |-> <<r>>,
                            intact |-> TRUE]
                /\ data = pre \o EncodeVote(r)
           \/ \E r1 \in PairFirsts, r2 \in SecondVotes :
                /\ input = [kind |-> "vote", records |-> <<r1, r2>>,
                            intact |-> TRUE]
                /\ data = pre \o EncodeVote(r1) \o EncodeVote(r2)
           \/ LET whole == pre \o EncodeVote(CutVote)
              IN  \E n \in Len(pre)..(Len(whole) - 1) :
                    /\ input = [kind |-> "vote", records |-> <<CutVote>>,
                                intact |-> FALSE]
                    /\ data = Cut(whole, n)
        /\ offset = IntOf(Len(pre))
    /\ pc = "vote"

\* get_members: the return slots are public keys.
InitMembers ==
    /\ \E n \in 1..MaxMembers : \E items \in [1..n -> Keys] :
            input = [kind |-> "members", items |-> items]
    /\ data = <<>>
    /\ offset = IntOf(0)
    /\ pc = "members"

Init ==
    /\ InitCall \/ InitProposal \/ InitVote \/ InitMembers
    /\ field = 0
    /\ record = EmptyDict
    /\ start = offset
    /\ prev = offset
    /\ ret = NoRet
    /\ out = <<>>
    /\ members = <<>>
    /\ bech32 \in {"missing", "installed"}

----------------------------------------------------------------------------
(* The environment: the bech32 package is installed or removed while the *)
(* program runs.  Once imported it stays in sys.modules.                 *)

install_bech32 ==
    /\ bech32 = "missing"
    /\ bech32' = "installed"
    /\ UNCHANGED <<input, data, pc, field, record, start, prev, offset, ret,
                   out, members>>

uninstall_bech32 ==
    /\ bech32 = "installed"
    /\ bech32' = "missing"
    /\ UNCHANGED <<input, data, pc, field, record, start, prev, offset, ret,
                   out, members>>

\* Whether "from bech32 import ..." succeeds now.
Importable == bech32 # "missing"

\* The package after a pubkey_to_bech32 call.
AfterImport == IF Importable THEN "imported" ELSE bech32

----------------------------------------------------------------------------
(* Calls of one primitive *)

\* A nested primitive called at the cursor; the caller takes the returned
\* cursor.
CallNested(op, r) ==
    /\ pc = "call"
    /\ ret' = Return(op, offset, r)
    /\ prev' = offset
    /\ offset' = IF r.status = "ok" THEN r.offset ELSE offset
    /\ pc' = "done"
    /\ UNCHANGED <<input, data, field, record, start, out, members>>

call_decode_nested_u64 ==
    /\ CallNested("decode_nested_u64", decode_nested_u64(data, offset))
    /\ UNCHANGED bech32

call_decode_nested_biguint ==
    /\ CallNested("decode_nested_biguint", decode_nested_biguint(data, offset))
    /\ UNCHANGED bech32

call_decode_nested_buffer ==
    /\ CallNested("decode_nested_buffer", decode_nested_buffer(data, offset))
    /\ UNCHANGED bech32

call_decode_nested_address ==
    /\ CallNested("decode_nested_address",
                  decode_nested_address(data, offset, Importable))
    /\ bech32' = AfterImport

call_decode_nested_bool ==
    /\ CallNested("decode_nested_bool", decode_nested_bool(data, offset))
    /\ UNCHANGED bech32

\* A top-level decoder called on the whole slot.
CallTopLevel(op, v) ==
    /\ pc = "call"
    /\ ret' = [op |-> op, from |-> IntOf(0), status |-> "ok", value |-> v,
               offset |-> NoValue]
    /\ pc' = "done"
    /\ UNCHANGED <<input, data, field, record, start, prev, offset, out,
                   members, bech32>>

call_decode_top_level_u64 ==
    CallTopLevel("decode_top_level_u64", decode_top_level_u64(data))

call_decode_top_level_biguint ==
    CallTopLevel("decode_top_level_biguint", decode_top_level_biguint(data))

----------------------------------------------------------------------------
(* Record decoders *)

\* One statement of a record decoder's body: the field is stored and the
\* cursor advanced, or the exception leaves the function.
FieldStep(op, r, uses_address) ==
    /\ IF r.status = "ok"
       THEN /\ record' = r.value
            /\ prev' = offset
            /\ offset' = r.offset
            /\ field' = field + 1
            /\ UNCHANGED <<pc, ret>>
       ELSE /\ ret' = Return(op, start, r)
            /\ pc' = "done"
            /\ record' = EmptyDict
            /\ field' = 0
            /\ UNCHANGED <<prev, offset>>
    /\ bech32' = IF uses_address THEN AfterImport ELSE bech32
    /\ UNCHANGED <<input, data, start, out, members>>

\* return record, offset
RecordReturn(op, next_pc) ==
    /\ ret' = Return(op, start, Ok(record, offset))
    /\ out' = Append(out, record)
    /\ pc' = next_pc
    /\ UNCHANGED <<input, data, field, record, start, prev, offset, members,
                   bech32>>

decode_proposal_field ==
    /\ pc = "proposal"
    /\ field < ProposalFields
    /\ FieldStep("decode_proposal",
                 decode_proposal_step(field + 1, record, data, offset,
                                      Importable),
                 field + 1 \in {2, 4})

decode_proposal_return ==
    /\ pc = "proposal"
    /\ field = ProposalFields
    /\ RecordReturn("decode_proposal", "done")

decode_vote_record_field ==
    /\ pc = "vote"
    /\ field < VoteFields
    /\ FieldStep("decode_vote_record",
                 decode_vote_record_step(field + 1, record, data, offset,
                                         Importable),
                 field + 1 = 1)

decode_vote_record_return ==
    /\ pc = "vote"
    /\ field = VoteFields
    /\ RecordReturn("decode_vote_record", "returned")

\* The caller resumes at the returned cursor while bytes are left.
decode_next_vote_record ==
    /\ pc = "returned"
    /\ IntLess(offset, IntOf(Len(data)))
    /\ pc' = "vote"
    /\ field' = 0
    /\ record' = EmptyDict
    /\ start' = offset
    /\ UNCHANGED <<input, data, prev, offset, ret, out, members, bech32>>

----------------------------------------------------------------------------
(* get_members *)

\* One round of the loop: addr = pubkey_to_bech32(data); members.append(addr)
get_members_item ==
    /\ pc = "members"
    /\ Len(members) < Len(input.items)
    /\ data' = input.items[Len(members) + 1]
    /\ members' = Append(members, pubkey_to_bech32(data', Importable))
    /\ bech32' = AfterImport
    /\ UNCHANGED <<input, pc, field, record, start, prev, offset, ret, out>>

get_members_return ==
    /\ pc = "members"
    /\ Len(members) = Len(input.items)
    /\ ret' = [op |-> "get_members", from |-> IntOf(0), status |-> "ok",
               value |-> members, offset |-> NoValue]
    /\ pc' = "done"
    /\ UNCHANGED <<input, data, field, record, start, prev, offset, out,
                   members, bech32>>

----------------------------------------------------------------------------

Next ==
    \/ install_bech32
    \/ uninstall_bech32
    \/ call_decode_nested_u64
    \/ call_decode_nested_biguint
    \/ call_decode_nested_buffer
    \/ call_decode_nested_address
    \/ call_decode_nested_bool
    \/ call_decode_top_level_u64
    \/ call_decode_top_level_biguint
    \/ decode_proposal_field
    \/ decode_proposal_return
    \/ decode_vote_record_field
    \/ decode_vote_record_return
    \/ decode_next_vote_record
    \/ get_members_item
    \/ get_members_return

Spec == Init /\ [][Next]_vars

----------------------------------------------------------------------------
(* Properties *)

NestedOps ==
    {"decode_nested_u64", "decode_nested_biguint", "decode_nested_buffer",
     "decode_nested_address", "decode_nested_bool"}

RecordOps == {"decode_proposal", "decode_vote_record"}

TopLevelOps == {"decode_top_level_u64", "decode_top_level_biguint"}

\* The four bytes of a length prefix at `at`, as far as the buffer has them.
PrefixBytes(buffer, at) == Slice(buffer, at, IntAdd(at, IntOf(4)))

\* The bytes a nested primitive needs at `at`: its fixed width, or 4 + the
\* declared length.
Width(op, buffer, at) ==
    CASE op = "decode_nested_u64" -> IntOf(8)
      [] op = "decode_nested_address" -> IntOf(32)
      [] op = "decode_nested_bool" -> IntOf(1)
      [] OTHER -> IF Len(PrefixBytes(buffer, at)) < 4 THEN IntOf(4)
                  ELSE IntAdd(IntOf(4), int_from_bytes(PrefixBytes(buffer, at)))

\* The bytes of the buffer that lie in [from, to).
BytesRead(buffer, from, to) == IntOf(Len(Slice(buffer, from, to)))

StatusName(b) ==
    CASE b = 0 -> "Open"
      [] b = 1 -> "Passed"
      [] b = 2 -> "Executable"
      [] b = 3 -> "Executed"
      [] b = 4 -> "Failed"
      [] b = 5 -> "Cancelled"
      [] OTHER -> "Unknown(" \o ToString(b) \o ")"

DirectionName(b) ==
    CASE b = 0 -> "Yes"
      [] b = 1 -> "No"
      [] OTHER -> "Unknown(" \o ToString(b) \o ")"

\* addr is a rendering of the public key: the hex fallback or bech32.
IsRendering(addr, key) ==
    \/ addr = pubkey_to_bech32(key, FALSE)
    \/ addr = pubkey_to_bech32(key, TRUE)

ProposalMatches(rec, p) ==
    /\ DOMAIN rec = {"id", "proposer", "description", "receiver", "amount",
                     "status", "yes_votes", "no_votes", "created_at",
                     "passed_at", "bulletin_post_id"}
    /\ rec.id = p.id
    /\ rec.description = p.description
    /\ rec.amount = p.amount
    /\ rec.status = StatusName(p.status)
    /\ rec.yes_votes = p.yes_votes
    /\ rec.no_votes = p.no_votes
    /\ rec.created_at = p.created_at
    /\ rec.passed_at = p.passed_at
    /\ rec.bulletin_post_id = p.bulletin_post_id
    /\ IsRendering(rec.proposer, p.proposer)
    /\ IsRendering(rec.receiver, p.receiver)

VoteMatches(rec, r) ==
    /\ DOMAIN rec = {"voter", "direction", "weight"}
    /\ rec.direction = DirectionName(r.direction)
    /\ rec.weight = r.weight
    /\ IsRendering(rec.voter, r.voter)

\* The encoded length of a vote record: 32 + 1 + 4 + weight length.
VoteLen(r) == IntOf(32 + 1 + 4 + Len(MinimalBytes(r.weight)))

IntactInput(kind) == input.kind = kind /\ input.intact

\* C1: a nested primitive whose read needs bytes past the end of the buffer
\* (offset + width > buffer length) fails and returns no value.
C1_TruncatedReadFails ==
    (/\ ret.op \in NestedOps
     /\ IntLess(IntOf(Len(data)),
                IntAdd(ret.from, Width(ret.op, data, ret.from))))
    => ret.status # "ok"

\* C2: after every decode step that returns (a nested primitive, a field
\* step of a record decoder) the cursor is within the buffer and has moved
\* by exactly the bytes read from the buffer.
C2_CursorWithinBuffer ==
    /\ (ret.op \in NestedOps /\ ret.status = "ok")
       => /\ IntLeq(ret.offset, IntOf(Len(data)))
          /\ ret.offset
             = IntAdd(ret.from, BytesRead(data, ret.from, ret.offset))
    /\ (pc \in {"proposal", "vote"} /\ field > 0)
       => /\ IntLeq(offset, IntOf(Len(data)))
          /\ offset = IntAdd(prev, BytesRead(data, prev, offset))

\* C3: a record decoder returns a record only if every field was decoded
\* from its full encoded width inside the buffer; otherwise it fails.
C3_AllOrNothing ==
    (ret.op \in RecordOps /\ ret.status = "ok")
    => IntLeq(ret.offset, IntOf(Len(data)))

\* C4: decode_proposal at offset 0 on the 11 nested encodings of a proposal,
\* concatenated in order, returns every field's original value and the
\* buffer length as cursor.
C4_ProposalRoundTrip ==
    (IntactInput("proposal") /\ pc = "done")
    => /\ ret.op = "decode_proposal"
       /\ ret.status = "ok"
       /\ ret.offset = IntOf(Len(data))
       /\ ProposalMatches(ret.value, input.fields)

\* The maximal proposal (u64 = 2^64-1, a value above u64, long text) was
\* decoded and returned.
C4_Witness ==
    /\ IntactInput("proposal")
    /\ pc = "done"
    /\ ret.status = "ok"
    /\ ret.value.id = U64Max
    /\ ret.value.description = LongText
    /\ ret.value.amount = <<1, 0, 0, 0, 0>>

\* C5: of two vote records back to back, the first decode returns the first
\* record and a cursor advanced by exactly its encoded length, and the
\* decode resumed there returns the second record and the buffer length.
C5_SequentialVoteRecords ==
    (IntactInput("vote") /\ Len(input.records) = 2)
    => /\ ret.status \in {"none", "ok"}
       /\ Len(out) >= 1 => VoteMatches(out[1], input.records[1])
       /\ Len(out) = 1 =>
            /\ ret.offset = IntAdd(ret.from, VoteLen(input.records[1]))
            /\ IntLeq(ret.offset, offset)
            /\ pc = "returned" => offset = ret.offset
            /\ pc = "vote" => start = ret.offset
       /\ Len(out) = 2 =>
            /\ VoteMatches(out[2], input.records[2])
            /\ ret.from = start
            /\ ret.offset = IntAdd(ret.from, VoteLen(input.records[2]))
            /\ ret.offset = IntOf(Len(data))

\* Both records of a pair were returned, the first with a non-empty weight.
C5_Witness ==
    /\ IntactInput("vote")
    /\ Len(input.records) = 2
    /\ Len(out) = 2
    /\ out[1].weight = <<1, 0, 0, 0, 0>>
    /\ out[2].direction = "No"

\* C6: the status byte b of a proposal decodes to the variant of the table
\* for b in 0..5 and to Unknown(b) otherwise, the direction byte of a vote
\* record to Yes, No or Unknown(b); no byte makes the decode fail and
\* exactly one byte is consumed.
C6_VariantFallback ==
    /\ IntactInput("proposal")
       => /\ ret.status \in {"none", "ok"}
          /\ field >= 6 => record.status = StatusName(input.fields.status)
          /\ field = 6 => offset = IntAdd(prev, IntOf(1))
    /\ IntactInput("vote")
       => /\ ret.status \in {"none", "ok"}
          /\ (pc = "vote" /\ field >= 2) =>
                record.direction
                = DirectionName(input.records[Len(out) + 1].direction)
          /\ (pc = "vote" /\ field = 2) => offset = IntAdd(prev, IntOf(1))

\* A status byte of 6 was decoded to Unknown(6), and the record returned.
C6_Witness ==
    /\ IntactInput("proposal")
    /\ input.fields.status = 6
    /\ ret.status = "ok"
    /\ ret.value.status = "Unknown(6)"

\* C7: decode_nested_biguint at o on a 4-byte length L and the L minimal
\* big-endian bytes of v returns (v, o + 4 + L); L = 0 gives (0, o + 4).
C7_BigUintRoundTrip ==
    \A v \in BigValues :
        (/\ IntactInput("call")
         /\ input.body = EncodeBigUint(v)
         /\ ret.op = "decode_nested_biguint")
        => /\ ret.status = "ok"
           /\ ret.value = v
           /\ ret.offset = IntAdd(ret.from, IntOf(4 + Len(MinimalBytes(v))))

\* 2^64 was decoded from its encoding placed after a junk byte.
C7_Witness ==
    /\ IntactInput("call")
    /\ input.body = EncodeBigUint(<<1, 0, 0, 0, 0>>)
    /\ ret.op = "decode_nested_biguint"
    /\ ret.from = IntOf(1)
    /\ ret.offset = IntOf(14)

\* C8: decode_nested_u64 at o on the 8-byte big-endian encoding of n returns
\* (n, o + 8), whatever bytes come before o and after o + 8.
C8_U64RoundTrip ==
    \A n \in U64Values :
        (/\ IntactInput("call")
         /\ input.body = U64Bytes(n)
         /\ ret.op = "decode_nested_u64")
        => /\ ret.status = "ok"
           /\ ret.value = n
           /\ ret.offset = IntAdd(ret.from, IntOf(8))

\* 2^64-1 was decoded with a byte before and a byte after its encoding.
C8_Witness ==
    /\ IntactInput("call")
    /\ input.body = U64Bytes(U64Max)
    /\ ret.op = "decode_nested_u64"
    /\ ret.from = IntOf(1)
    /\ Len(data) = 10
    /\ ret.value = U64Max

\* C9: both top-level decoders return the big-endian value of the whole
\* buffer (re-encoded minimally, the value gives the buffer without its
\* leading zero bytes), 0 for the empty buffer; the nested encoding of a
\* non-zero v does not decode to v.
C9_TopLevelNoFraming ==
    ret.op \in TopLevelOps
    => /\ MinimalBytes(ret.value) = StripZeros(data)
       /\ (ret.value = <<>> \/ ret.value[1] # 0)
       /\ Len(data) = 0 => ret.value = <<>>
       /\ \A v \in BigValues \ {<<>>} :
            data = EncodeBigUint(v) => ret.value # v

\* The nested encoding of 256 was decoded by decode_top_level_biguint.
C9_Witness ==
    /\ ret.op = "decode_top_level_biguint"
    /\ data = EncodeBigUint(<<256>>)
    /\ ret.value = <<2, 256>>

\* C10: all the addresses of one get_members list use the same rendering,
\* all bech32 or all the hex fallback.
C10_SingleRendering ==
    input.kind = "members"
    => \E imp \in BOOLEAN :
         \A i \in 1..Len(members) :
            members[i] = pubkey_to_bech32(input.items[i], imp)

============================================================================
